---- MODULE Spec2Model ----
(***************************************************************************)
(* State engine of react-d3-graph (graph.builder.js): graph state          *)
(* initialization and re-initialization, link validation, the adjacency    *)
(* matrix, orphan tagging and node highlighting.                           *)
(*                                                                         *)
(* JavaScript objects are functions from field names to values.  Node      *)
(* objects live in a heap (a sequence of objects, a reference is an index) *)
(* because the code shares them between the node map and the simulation    *)
(* node list and mutates them in place.                                    *)
(***************************************************************************)
EXTENDS Integers, Sequences, FiniteSets, TLC

VARIABLES
    inited,           \* TRUE once initializeGraphState has returned a state
    config,           \* state.config
    links,            \* state.links: the adjacency matrix
    d3Links,          \* state.d3Links: the simulation links
    nodes,            \* state.nodes: node id -> reference of a node object
    d3Nodes,          \* state.d3Nodes: references of the simulation nodes
    highlightedNode,  \* state.highlightedNode
    simulations,      \* the force simulations created so far, TRUE while the
                      \* timer of the simulation runs; state.simulation is the last
    heap,             \* the node objects, by reference
    snapshot,         \* the node map passed to the last updateNodeHighlightedValue,
                      \* as a reader of the previous state sees it after the call
    props,            \* the props last passed to initializeGraphState (the two
                      \* objects of the call, for the utils on their own)
    call,             \* the last operation, its arguments and what it returned
    result,           \* outcome of the last initializeGraphState call
    steps             \* number of operations so far

vars == <<inited, config, links, d3Links, nodes, d3Nodes, highlightedNode,
          simulations, heap, snapshot, props, call, result, steps>>

(***************************************************************************)
(* Bounds of the model.                                                    *)
(***************************************************************************)
IdPool == <<"A", "B", "C">>
MaxLinks == 2
MaxSteps == 3
MaxCoord == 1

Ids == {IdPool[i] : i \in 1..Len(IdPool)}
IdIndex(id) == CHOOSE i \in 1..Len(IdPool) : IdPool[i] = id

(***************************************************************************)
(* JavaScript objects.                                                     *)
(***************************************************************************)
EmptyObject == [k \in {} |-> 0]

\* Object.assign({}, a, b): the fields of b override those of a.
extends(a, b) == b @@ a

pick(o, keys) == [k \in (DOMAIN o) \cap keys |-> o[k]]

antiPick(o, keys) == pick(o, (DOMAIN o) \ keys)

\* A link value is a JavaScript value; typeof tells numbers from the rest.
Num(n) == [typeof |-> "number", n |-> n]
Str(s) == [typeof |-> "string", s |-> s]

NODE_PROPS_WHITELIST == {"id", "highlighted", "x", "y", "index", "vy", "vx"}
LINK_CUSTOM_PROPS_WHITELIST == {"color", "opacity", "strokeWidth", "label"}
NODE_PROPERTIES_DISCARD_TO_COMPARE == {"x", "y", "vx", "vy", "index"}

(***************************************************************************)
(* Inputs: props.data.nodes, props.data.links, props.config.               *)
(***************************************************************************)
OrderedIds(S) == SelectSeq(IdPool, LAMBDA i : i \in S)

NodeList(S) == [i \in 1..Cardinality(S) |-> [id |-> OrderedIds(S)[i]]]

NodeLists == {NodeList(S) : S \in SUBSET Ids}

\* the links of the inputs join neighbours in the pool
Pairs == {<<IdPool[i], IdPool[i + 1]>> : i \in 1..(Len(IdPool) - 1)}

GoodLinks ==
    {[source |-> p[1], target |-> p[2]] : p \in Pairs}
    \cup {[source |-> p[1], target |-> p[2], value |-> Num(2)] : p \in Pairs}

BadValueLinks == {[source |-> p[1], target |-> p[2], value |-> Str("x")] : p \in Pairs}

SeqsUpTo(S, n) == UNION {[1..k -> S] : k \in 0..n}

Configs == [directed : BOOLEAN, collapsible : BOOLEAN]

Data(ns, ls) == [hasNodes |-> TRUE, nodes |-> ns, links |-> ls]

\* data without a nodes field
DataNoNodes(ls) == [hasNodes |-> FALSE, nodes |-> <<>>, links |-> ls]

DefaultConfig == [directed |-> FALSE, collapsible |-> FALSE]

\* every input: any node list (the empty one too), links between any two ids
\* of the pool, with or without a value, numeric or not
AllInputs ==
    {[data |-> d, config |-> c] :
        d \in {Data(ns, ls) :
                  ns \in NodeLists,
                  ls \in SeqsUpTo(GoodLinks \cup BadValueLinks, MaxLinks)}
              \cup {DataNoNodes(ls) :
                      ls \in SeqsUpTo(GoodLinks \cup BadValueLinks, MaxLinks)},
        c \in Configs}

(***************************************************************************)
(* _validateGraphData: "ok", or the error thrown.                          *)
(***************************************************************************)
HasNodeWithId(data, id) == \E i \in 1..Len(data.nodes) : data.nodes[i].id = id

\* the value of the link checked before its endpoints
validateLinkValueFirst(data, l) ==
    IF "value" \in DOMAIN l /\ l.value.typeof # "number" THEN "INVALID_LINK_VALUE"
    ELSE IF ~HasNodeWithId(data, l.source) THEN "INVALID_LINKS"
    ELSE IF ~HasNodeWithId(data, l.target) THEN "INVALID_LINKS"
    ELSE "ok"

validateLink(data, l) ==
    IF ~HasNodeWithId(data, l.source) THEN "INVALID_LINKS"
    ELSE IF ~HasNodeWithId(data, l.target) THEN "INVALID_LINKS"
    ELSE IF "value" \in DOMAIN l /\ l.value.typeof # "number" THEN "INVALID_LINK_VALUE"
    ELSE "ok"

RECURSIVE validateLinksFrom(_, _)
validateLinksFrom(data, i) ==
    IF i > Len(data.links) THEN "ok"
    ELSE IF validateLink(data, data.links[i]) # "ok" THEN validateLink(data, data.links[i])
    ELSE validateLinksFrom(data, i + 1)

validateGraphData(data) ==
    IF ~data.hasNodes \/ Len(data.nodes) = 0 THEN "INSUFFICIENT_DATA"
    ELSE validateLinksFrom(data, 1)

\* the inputs that pass validation, with a value in first position only
ValidLinkLists(ns) ==
    {s \in SeqsUpTo(GoodLinks, MaxLinks) :
        /\ \A i \in 2..Len(s) : "value" \notin DOMAIN s[i]
        /\ \A i \in 1..Len(s) : validateLink(Data(ns, s), s[i]) = "ok"}

ValidInputs ==
    UNION {{[data |-> Data(ns, ls), config |-> c] :
                ls \in ValidLinkLists(ns), c \in Configs} :
           ns \in NodeLists \ {<<>>}}

\* one input for each error of the validation
InvalidSamples ==
    {[data |-> Data(<<>>, <<>>), config |-> DefaultConfig],
     [data |-> Data(NodeList({"A"}), <<[source |-> "A", target |-> "B"]>>),
      config |-> DefaultConfig],
     [data |-> Data(NodeList({"A", "B"}),
                    <<[source |-> "A", target |-> "B", value |-> Str("x")]>>),
      config |-> DefaultConfig]}

Inputs == ValidInputs \cup InvalidSamples

(***************************************************************************)
(* _initializeLinks: the adjacency matrix of the simulation links.         *)
(***************************************************************************)
withRow(m, id) == IF id \in DOMAIN m THEN m ELSE (id :> EmptyObject) @@ m

setEntry(m, s, t, v) == [m EXCEPT ![s] = (t :> v) @@ m[s]]

\* config.collapsible && l.isHidden ? 0 : l.value || 1
linkValue(l, cfg) ==
    IF cfg.collapsible /\ "isHidden" \in DOMAIN l /\ l.isHidden THEN 0
    ELSE IF "value" \in DOMAIN l /\ l.value.typeof = "number" /\ l.value.n # 0
         THEN l.value.n
         ELSE 1

\* the mirrored entry of an undirected link always gets weight 1
addLinkMirrorWeightOne(m, l, cfg) ==
    LET m1 == withRow(withRow(m, l.source), l.target)
        m2 == setEntry(m1, l.source, l.target, linkValue(l, cfg))
    IN  IF ~cfg.directed THEN setEntry(m2, l.target, l.source, 1) ELSE m2

\* no row is created for the target of a directed link
addLinkNoTargetRow(m, l, cfg) ==
    LET value == linkValue(l, cfg)
        m2 == setEntry(withRow(m, l.source), l.source, l.target, value)
    IN  IF ~cfg.directed
        THEN setEntry(withRow(m2, l.target), l.target, l.source, value)
        ELSE m2

addLink(m, l, cfg) ==
    LET m1 == withRow(withRow(m, l.source), l.target)
        value == linkValue(l, cfg)
        m2 == setEntry(m1, l.source, l.target, value)
    IN  IF ~cfg.directed THEN setEntry(m2, l.target, l.source, value) ELSE m2

RECURSIVE initializeLinksFrom(_, _, _, _)
initializeLinksFrom(graphLinks, cfg, i, m) ==
    IF i > Len(graphLinks) THEN m
    ELSE initializeLinksFrom(graphLinks, cfg, i + 1, addLink(m, graphLinks[i], cfg))

initializeLinks(graphLinks, cfg) == initializeLinksFrom(graphLinks, cfg, 1, EmptyObject)

(***************************************************************************)
(* computeNodeDegree (collapse.helper): the number of nonzero entries for   *)
(* the node in the other rows, and in its own row.                         *)
(***************************************************************************)
computeNodeDegree(nodeId, m) ==
    [inDegree |->
        Cardinality({s \in DOMAIN m : nodeId \in DOMAIN m[s] /\ m[s][nodeId] # 0}),
     outDegree |->
        IF nodeId \in DOMAIN m
        THEN Cardinality({t \in DOMAIN m[nodeId] : m[nodeId][t] # 0})
        ELSE 0]

(***************************************************************************)
(* _initializeNodes: mutates the graph nodes in place and maps them by id. *)
(***************************************************************************)
initializeNode(node) ==
    LET n1 == ("highlighted" :> FALSE) @@ node
        n2 == IF "x" \in DOMAIN n1 THEN n1 ELSE ("x" :> 0) @@ n1
    IN  IF "y" \in DOMAIN n2 THEN n2 ELSE ("y" :> 0) @@ n2

\* the objects of graphNodes after the loop; object i has reference i
initializedObjects(graphNodes) ==
    [i \in 1..Len(graphNodes) |-> initializeNode(graphNodes[i])]

\* the loop stops one node early
initializeNodesOffByOne(graphNodes) ==
    [id \in {graphNodes[i].id : i \in 1..(Len(graphNodes) - 1)} |->
        CHOOSE i \in 1..(Len(graphNodes) - 1) : graphNodes[i].id = id]

\* nodes[node.id.toString()] = node: the last node with an id wins
initializeNodes(graphNodes) ==
    [id \in {graphNodes[i].id : i \in 1..Len(graphNodes)} |->
        CHOOSE i \in 1..Len(graphNodes) :
            /\ graphNodes[i].id = id
            /\ \A j \in 1..Len(graphNodes) : graphNodes[j].id = id => j <= i]

(***************************************************************************)
(* _tagOrphanNodes: a node of degree zero is replaced, in the node map, by *)
(* a copy that carries _orphan; the other entries keep their object.       *)
(***************************************************************************)
\* only the outgoing entries are counted
isOrphanOutDegreeOnly(nodeId, linksMatrix) ==
    computeNodeDegree(nodeId, linksMatrix).outDegree = 0

isOrphan(nodeId, linksMatrix) ==
    /\ computeNodeDegree(nodeId, linksMatrix).inDegree = 0
    /\ computeNodeDegree(nodeId, linksMatrix).outDegree = 0

RECURSIVE tagOrphanNodesFrom(_, _, _, _, _)
tagOrphanNodesFrom(keys, nodeMap, h, linksMatrix, i) ==
    IF i > Len(keys) THEN [nodes |-> nodeMap, heap |-> h]
    ELSE IF isOrphan(keys[i], linksMatrix)
    THEN tagOrphanNodesFrom(keys,
            [nodeMap EXCEPT ![keys[i]] = Len(h) + 1],
            Append(h, ("_orphan" :> TRUE) @@ h[nodeMap[keys[i]]]),
            linksMatrix, i + 1)
    ELSE tagOrphanNodesFrom(keys, nodeMap, h, linksMatrix, i + 1)

tagOrphanNodes(nodeMap, h, linksMatrix) ==
    tagOrphanNodesFrom(OrderedIds(DOMAIN nodeMap), nodeMap, h, linksMatrix, 1)

(***************************************************************************)
(* _mapDataLinkToD3Link: the simulation link for the input link at index   *)
(* (from 1 here).  The previous simulation link at that index, when there  *)
(* is one, is kept with the custom props of the input link laid over it.   *)
(***************************************************************************)
\* the previous simulation link is looked up one position too far
mapDataLinkToD3LinkShifted(link, index, prevD3Links, cfg, st) ==
    IF index + 1 <= Len(prevD3Links)
    THEN IF cfg.collapsible
         THEN prevD3Links[index + 1]
         ELSE extends(prevD3Links[index + 1], [isHidden |-> FALSE])
    ELSE [index |-> index - 1, source |-> link.source, target |-> link.target]

mapDataLinkToD3Link(link, index, prevD3Links, cfg, st) ==
    LET customProps == pick(link, LINK_CUSTOM_PROPS_WHITELIST) IN
    IF index <= Len(prevD3Links)
    THEN LET d3Link == prevD3Links[index]
             toggledDirected ==
                 st.config.directed /\ cfg.directed # st.config.directed
             refinedD3Link == extends(d3Link, customProps)
         IN  IF toggledDirected
             THEN extends(refinedD3Link, [isHidden |-> FALSE])
             ELSE IF cfg.collapsible
                  THEN refinedD3Link
                  ELSE extends(refinedD3Link, [isHidden |-> FALSE])
    ELSE extends([index |-> index - 1, source |-> link.source, target |-> link.target],
                 customProps)

(***************************************************************************)
(* _createForceSimulation: a new simulation, whose timer runs from its     *)
(* creation; the simulations already there are left as they are.           *)
(***************************************************************************)
createForceSimulation(sims) == Append(sims, TRUE)

(***************************************************************************)
(* initializeGraphState, after the validation.                             *)
(***************************************************************************)
\* utils.merge(DEFAULT_CONFIG, config || {}) on the flat fields modelled
mergeConfig(o1, o2) == [k \in DOMAIN o1 |-> IF k \in DOMAIN o2 THEN o2[k] ELSE o1[k]]

\* graph.nodes: a copy of each input node; with a previous state, the
\* whitelisted props of the previous node of that id are laid over it
graphNode(n, st) ==
    IF st.inited /\ n.id \in DOMAIN st.nodes
    THEN extends(n, pick(st.heap[st.nodes[n.id]], NODE_PROPS_WHITELIST))
    ELSE n

\* graph.links
graphLink(l, index, cfg, st) ==
    IF st.inited THEN mapDataLinkToD3Link(l, index, st.d3Links, cfg, st) ELSE l

initializeGraphState(input, st) ==
    LET data == input.data
        graphNodes == [i \in 1..Len(data.nodes) |-> graphNode(data.nodes[i], st)]
        graphLinks ==
            [i \in 1..Len(data.links) |-> graphLink(data.links[i], i, input.config, st)]
        newConfig == mergeConfig(DefaultConfig, input.config)
        matrix == initializeLinks(graphLinks, newConfig)
        tagged == tagOrphanNodes(initializeNodes(graphNodes),
                                 initializedObjects(graphNodes), matrix)
    IN  [config |-> newConfig,
         links |-> matrix,
         d3Links |-> graphLinks,
         nodes |-> tagged.nodes,
         d3Nodes |-> [i \in 1..Len(graphNodes) |-> i],
         highlightedNode |-> "",
         heap |-> tagged.heap]

(***************************************************************************)
(* updateNodeHighlightedValue: returns a new node map; every node it       *)
(* touches is a new object.                                                *)
(***************************************************************************)
\* Object.assign({}, nodeMap[id], { highlighted: value }) as a new object,
\* bound to id in the map
\* the flag is written to the node object of the map, in place
highlightEntryInPlace(acc, id, value) ==
    IF id \in DOMAIN acc.nodes
    THEN [nodes |-> acc.nodes,
          heap |-> [acc.heap EXCEPT ![acc.nodes[id]] = extends(@, [highlighted |-> value])]]
    ELSE [nodes |-> (id :> Len(acc.heap) + 1) @@ acc.nodes,
          heap |-> Append(acc.heap, [highlighted |-> value])]

highlightEntry(acc, id, value) ==
    LET old == IF id \in DOMAIN acc.nodes THEN acc.heap[acc.nodes[id]] ELSE EmptyObject
        h == Append(acc.heap, extends(old, [highlighted |-> value]))
    IN  [nodes |-> (id :> Len(h)) @@ acc.nodes, heap |-> h]

RECURSIVE highlightEntries(_, _, _, _)
highlightEntries(acc, keys, i, value) ==
    IF i > Len(keys) THEN acc
    ELSE highlightEntries(highlightEntry(acc, keys[i], value), keys, i + 1, value)

\* the highlight degree is not consulted
updateNodeHighlightedValueAnyDegree(nodeMap, h, linksMatrix, highlightDegree, id, value) ==
    LET updatedNodes == highlightEntry([nodes |-> nodeMap, heap |-> h], id, value)
        updated ==
            IF id \in DOMAIN linksMatrix
            THEN highlightEntries(updatedNodes,
                                  OrderedIds(DOMAIN linksMatrix[id]), 1, value)
            ELSE updatedNodes
    IN  [nodes |-> updated.nodes,
         heap |-> updated.heap,
         highlightedNode |-> IF value THEN id ELSE "",
         input |-> nodeMap]

\* the flag of every node outside the call is cleared
updateNodeHighlightedValueClearsOthers(nodeMap, h, linksMatrix, highlightDegree, id, value) ==
    LET cleared == [r \in 1..Len(h) |-> extends(h[r], [highlighted |-> FALSE])]
        updatedNodes == highlightEntry([nodes |-> nodeMap, heap |-> cleared], id, value)
        updated ==
            IF id \in DOMAIN linksMatrix /\ highlightDegree # 0
            THEN highlightEntries(updatedNodes,
                                  OrderedIds(DOMAIN linksMatrix[id]), 1, value)
            ELSE updatedNodes
    IN  [nodes |-> updated.nodes,
         heap |-> updated.heap,
         highlightedNode |-> IF value THEN id ELSE "",
         input |-> nodeMap]

updateNodeHighlightedValue(nodeMap, h, linksMatrix, highlightDegree, id, value) ==
    LET updatedNodes == highlightEntry([nodes |-> nodeMap, heap |-> h], id, value)
        updated ==
            IF id \in DOMAIN linksMatrix /\ highlightDegree # 0
            THEN highlightEntries(updatedNodes,
                                  OrderedIds(DOMAIN linksMatrix[id]), 1, value)
            ELSE updatedNodes
    IN  [nodes |-> updated.nodes,
         heap |-> updated.heap,
         highlightedNode |-> IF value THEN id ELSE "",
         input |-> nodeMap]

(***************************************************************************)
(* utils: values as typeof sees them.  An object or an array is a function *)
(* from its own keys to values; the keys of an array are its indices.      *)
(***************************************************************************)
MAX_DEPTH == 20

Scalar(x) == [t |-> "scalar", v |-> x]
Obj(f) == [t |-> "object", v |-> f]
Arr(f) == [t |-> "array", v |-> f]

IndexKeys == <<"0", "1", "2", "3">>

\* the array of the elements of a sequence
ArrayOf(seq) == Arr([k \in {IndexKeys[i] : i \in 1..Len(seq)} |->
                        seq[CHOOSE i \in 1..Len(seq) : IndexKeys[i] = k]])

\* a flat record of the model as an object with scalar fields
ObjectOf(rec) == Obj([k \in DOMAIN rec |-> Scalar(rec[k])])

typeofObject(o) == o.t \in {"object", "array"}

keys(o) == IF typeofObject(o) THEN DOMAIN o.v ELSE {}

isEmptyObject(o) == typeofObject(o) /\ keys(o) = {}

hasOwnProperty(o, k) == typeofObject(o) /\ k \in DOMAIN o.v

isPropertyNestedObject(o, k) ==
    hasOwnProperty(o, k) /\ typeofObject(o.v[k]) /\ ~isEmptyObject(o.v[k])

\* scalars are equal when both are scalars, whatever their values
strictEqualsAnyScalar(a, b) == a.t = "scalar" /\ b.t = "scalar"

\* a === b for the values of two different inputs: scalars by value, objects
\* by identity, and two inputs share no object
strictEquals(a, b) == a.t = "scalar" /\ b.t = "scalar" /\ a.v = b.v

RECURSIVE isDeepEqual(_, _, _)
isDeepEqual(o1, o2, depth) ==
    IF isEmptyObject(o1) # isEmptyObject(o2) THEN FALSE
    ELSE IF Cardinality(keys(o1)) # Cardinality(keys(o2)) THEN FALSE
    ELSE \A k \in keys(o1) :
            IF isPropertyNestedObject(o1, k) /\ isPropertyNestedObject(o2, k)
               /\ depth < MAX_DEPTH
            THEN isDeepEqual(o1.v[k], o2.v[k], depth + 1)
            ELSE \/ hasOwnProperty(o2, k)
                    /\ isEmptyObject(o1.v[k]) /\ isEmptyObject(o2.v[k])
                 \/ hasOwnProperty(o2, k) /\ strictEquals(o2.v[k], o1.v[k])

(***************************************************************************)
(* merge: the keys of o1, with the values of o2 where o2 has them.  Two    *)
(* values that are both objects or arrays are merged key by key; when both *)
(* are arrays the merged object is turned into an array again.             *)
(***************************************************************************)
RECURSIVE merge(_, _, _)
merge(o1, o2, depth) ==
    IF keys(o1) = {}
    THEN IF typeofObject(o2) /\ ~isEmptyObject(o2) THEN o2 ELSE Obj(EmptyObject)
    ELSE Obj([k \in keys(o1) |->
            IF hasOwnProperty(o2, k) /\ typeofObject(o2.v[k]) /\ typeofObject(o1.v[k])
               /\ depth < MAX_DEPTH
            THEN IF o1.v[k].t = "array" /\ o2.v[k].t = "array"
                 THEN Arr(merge(o1.v[k], o2.v[k], depth + 1).v)
                 ELSE merge(o1.v[k], o2.v[k], depth + 1)
            ELSE IF hasOwnProperty(o2, k) THEN o2.v[k] ELSE o1.v[k]])

(***************************************************************************)
(* checkForGraphElementsChanges: the next data against the simulation      *)
(* nodes and links of the current state.                                   *)
(***************************************************************************)
checkForGraphElementsChanges(nextProps, st) ==
    LET nextNodes ==
            [i \in 1..Len(nextProps.data.nodes) |->
                antiPick(nextProps.data.nodes[i], NODE_PROPERTIES_DISCARD_TO_COMPARE)]
        nextLinks == nextProps.data.links
        stateD3Nodes ==
            [i \in 1..Len(st.d3Nodes) |->
                antiPick(st.heap[st.d3Nodes[i]], NODE_PROPERTIES_DISCARD_TO_COMPARE)]
        stateD3Links ==
            [i \in 1..Len(st.d3Links) |->
                [source |-> st.d3Links[i].source, target |-> st.d3Links[i].target]]
        objects(seq) == ArrayOf([i \in 1..Len(seq) |-> ObjectOf(seq[i])])
        ids(seq) == ArrayOf([i \in 1..Len(seq) |-> ObjectOf([id |-> seq[i].id])])
    IN  [graphElementsUpdated |->
            ~(isDeepEqual(objects(nextNodes), objects(stateD3Nodes), 0)
              /\ isDeepEqual(objects(nextLinks), objects(stateD3Links), 0)),
         newGraphElements |->
            \/ Len(nextNodes) # Len(stateD3Nodes)
            \/ Len(nextLinks) # Len(stateD3Links)
            \/ ~isDeepEqual(ids(nextNodes), ids(stateD3Nodes), 0)
            \/ ~isDeepEqual(objects(nextLinks), objects(stateD3Links), 0)]

(***************************************************************************)
(* graph.builder: the props of a link and of a node. rconfig is the render *)
(* part of the configuration; the zoom transform is 1.  The path and the   *)
(* marker come from collaborators and are left out, d is the argument      *)
(* handed to the path collaborator.  Widths are in tenths, opacities in    *)
(* hundredths.  A read of a property of undefined raises a TypeError.      *)
(***************************************************************************)
\* KEYWORDS.SAME (graph.const)
SAME == "SAME"

TypeError == [raised |-> TRUE]

isSame(v) == v.typeof = "string" /\ v.s = SAME

\* (nodes[id] && nodes[id].x) || 0
coordinate(st, id, axis) ==
    IF id \in DOMAIN st.nodes /\ axis \in DOMAIN st.heap[st.nodes[id]]
    THEN st.heap[st.nodes[id]][axis]
    ELSE 0

\* every node counts as highlighted
nodeHighlightedAlways(st, id) == TRUE

\* nodes[id].highlighted of a node of the map, as a condition
nodeHighlighted(st, id) ==
    /\ "highlighted" \in DOMAIN st.heap[st.nodes[id]]
    /\ st.heap[st.nodes[id]].highlighted

\* highlightedLink && highlightedLink.source === id (target alike)
isLinkEnd(highlightedLink, end, id) ==
    end \in DOMAIN highlightedLink /\ highlightedLink[end] = id

mainNodeParticipates(rconfig, source, target, hNode) ==
    CASE rconfig.highlightDegree = 0 -> FALSE
      [] rconfig.highlightDegree = 2 -> TRUE
      [] OTHER -> source = hNode \/ target = hNode

\* links[a][b], as a condition: undefined and 0 are falsy
entry(linksMatrix, a, b) ==
    IF b \in DOMAIN linksMatrix[a] THEN linksMatrix[a][b] ELSE 0

buildLinkProps(link, st, rconfig, highlightedLink) ==
    LET source == link.source
        target == link.target
        participates == mainNodeParticipates(rconfig, source, target, st.highlightedNode)
        raisesReasonNode ==
            participates
            /\ \/ source \notin DOMAIN st.nodes
               \/ nodeHighlighted(st, source) /\ target \notin DOMAIN st.nodes
        reasonNode ==
            participates /\ nodeHighlighted(st, source) /\ nodeHighlighted(st, target)
        reasonLink ==
            isLinkEnd(highlightedLink, "source", source)
            /\ isLinkEnd(highlightedLink, "target", target)
        highlight == reasonNode \/ reasonLink
        someHighlight == st.highlightedNode # "" \/ "source" \in DOMAIN highlightedLink
        opacity ==
            IF someHighlight
            THEN IF highlight THEN rconfig.link.opacity ELSE rconfig.highlightOpacity
            ELSE IF "opacity" \in DOMAIN link THEN link.opacity ELSE rconfig.link.opacity
        stroke ==
            IF highlight
            THEN IF rconfig.link.highlightColor = SAME
                 THEN rconfig.link.color
                 ELSE rconfig.link.highlightColor
            ELSE IF "color" \in DOMAIN link THEN link.color ELSE rconfig.link.color
        width ==
            IF "strokeWidth" \in DOMAIN link THEN link.strokeWidth
            ELSE rconfig.link.strokeWidth
        raisesLinkValue ==
            rconfig.link.semanticStrokeWidth
            /\ \/ source \notin DOMAIN st.links
               \/ entry(st.links, source, target) = 0 /\ target \notin DOMAIN st.links
        semanticValue ==
            IF entry(st.links, source, target) # 0 THEN entry(st.links, source, target)
            ELSE IF entry(st.links, target, source) # 0
                 THEN entry(st.links, target, source)
                 ELSE 1
        strokeWidth ==
            IF rconfig.link.semanticStrokeWidth
            THEN 10 * width + semanticValue * width
            ELSE 10 * width
    IN  IF raisesReasonNode \/ raisesLinkValue THEN TypeError
        ELSE [raised |-> FALSE,
              d |-> [source |-> [x |-> coordinate(st, source, "x"),
                                 y |-> coordinate(st, source, "y")],
                     target |-> [x |-> coordinate(st, target, "x"),
                                 y |-> coordinate(st, target, "y")]],
              source |-> source,
              target |-> target,
              highlight |-> highlight,
              strokeWidth |-> strokeWidth,
              stroke |-> stroke,
              opacity |-> opacity]

getNodeOpacity(node, highlight, hNode, highlightedLink, rconfig) ==
    LET someNodeHighlighted ==
            \/ hNode # ""
            \/ "source" \in DOMAIN highlightedLink /\ "target" \in DOMAIN highlightedLink
    IN  IF someNodeHighlighted
        THEN IF highlight THEN rconfig.node.opacity ELSE rconfig.highlightOpacity
        ELSE IF "opacity" \in DOMAIN node THEN node.opacity ELSE rconfig.node.opacity

buildNodeProps(node, rconfig, hNode, highlightedLink) ==
    LET highlight ==
            \/ "highlighted" \in DOMAIN node /\ node.highlighted
            \/ isLinkEnd(highlightedLink, "source", node.id)
            \/ isLinkEnd(highlightedLink, "target", node.id)
        fill ==
            IF highlight /\ rconfig.node.highlightColor # SAME
            THEN rconfig.node.highlightColor
            ELSE IF "color" \in DOMAIN node THEN node.color ELSE rconfig.node.color
        stroke ==
            IF highlight /\ rconfig.node.highlightStrokeColor # SAME
            THEN rconfig.node.highlightStrokeColor
            ELSE IF "strokeColor" \in DOMAIN node THEN node.strokeColor
                 ELSE rconfig.node.strokeColor
        strokeWidth ==
            IF highlight /\ ~isSame(rconfig.node.highlightStrokeWidth)
            THEN rconfig.node.highlightStrokeWidth.n
            ELSE IF "strokeWidth" \in DOMAIN node THEN node.strokeWidth
                 ELSE rconfig.node.strokeWidth
    IN  [id |-> node.id,
         highlight |-> highlight,
         cx |-> IF "x" \in DOMAIN node /\ node.x # 0 THEN Num(node.x) ELSE Str("0"),
         cy |-> IF "y" \in DOMAIN node /\ node.y # 0 THEN Num(node.y) ELSE Str("0"),
         fill |-> fill,
         stroke |-> stroke,
         strokeWidth |-> 10 * strokeWidth,
         opacity |-> getNodeOpacity(node, highlight, hNode, highlightedLink, rconfig)]

(***************************************************************************)
(* The state machine.                                                      *)
(***************************************************************************)
State ==
    [inited |-> inited, config |-> config, links |-> links, d3Links |-> d3Links,
     nodes |-> nodes, d3Nodes |-> d3Nodes, highlightedNode |-> highlightedNode,
     heap |-> heap]

stateVars == <<inited, config, links, d3Links, nodes, d3Nodes, highlightedNode,
               simulations, heap>>

Init ==
    /\ inited = FALSE
    /\ config = DefaultConfig
    /\ links = EmptyObject
    /\ d3Links = <<>>
    /\ nodes = EmptyObject
    /\ d3Nodes = <<>>
    /\ highlightedNode = ""
    /\ simulations = <<>>
    /\ heap = <<>>
    /\ snapshot = EmptyObject
    /\ props = [data |-> Data(<<>>, <<>>), config |-> DefaultConfig]
    /\ call = [op |-> "none"]
    /\ result = "none"
    /\ steps = 0

\* initializeGraphState(props, state): throws on invalid data, and the
\* caller keeps its state; otherwise the caller takes the returned state
Initialize(input) ==
    /\ steps < MaxSteps
    /\ steps' = steps + 1
    /\ props' = input
    /\ snapshot' = EmptyObject
    /\ call' = [op |-> "init", hadState |-> inited]
    /\ result' = validateGraphData(input.data)
    /\ IF validateGraphData(input.data) # "ok"
       THEN UNCHANGED stateVars
       ELSE \E s \in {initializeGraphState(input, State)} :
            /\ inited' = TRUE
            /\ config' = s.config
            /\ links' = s.links
            /\ d3Links' = s.d3Links
            /\ nodes' = s.nodes
            /\ d3Nodes' = s.d3Nodes
            /\ highlightedNode' = s.highlightedNode
            /\ simulations' = createForceSimulation(simulations)
            /\ heap' = s.heap

HighlightDegrees == {0, 1, 2}

\* the caller stores the node map and the highlighted node that
\* updateNodeHighlightedValue returns
SetHighlight(id, value, highlightDegree) ==
    /\ inited
    /\ steps < MaxSteps
    /\ steps' = steps + 1
    /\ call' = [op |-> "highlight", id |-> id, value |-> value,
                highlightDegree |-> highlightDegree]
    /\ \E r \in {updateNodeHighlightedValue(nodes, heap, links, highlightDegree, id, value)} :
       /\ nodes' = r.nodes
       /\ heap' = r.heap
       /\ highlightedNode' = r.highlightedNode
       /\ snapshot' = r.input
    /\ UNCHANGED <<inited, config, links, d3Links, d3Nodes, simulations, props, result>>

\* collapse of a node: its incident simulation links are hidden and their
\* weight in the matrix is zero
Collapse(id) ==
    /\ inited
    /\ config.collapsible
    /\ steps < MaxSteps
    /\ \E i \in 1..Len(d3Links) : id \in {d3Links[i].source, d3Links[i].target}
    /\ steps' = steps + 1
    /\ call' = [op |-> "collapse", id |-> id]
    /\ d3Links' = [i \in 1..Len(d3Links) |->
                     IF id \in {d3Links[i].source, d3Links[i].target}
                     THEN extends(d3Links[i], [isHidden |-> TRUE])
                     ELSE d3Links[i]]
    /\ links' = initializeLinks(d3Links', config)
    /\ snapshot' = EmptyObject
    /\ UNCHANGED <<inited, config, nodes, d3Nodes, highlightedNode, simulations, heap,
                   props, result>>

\* a tick of the simulation moves the simulation nodes in place
tickNode(n) ==
    [x |-> n.x + 1, y |-> n.y + 1, vx |-> 1, vy |-> 1] @@ n

\* the simulation of the state moves the simulation nodes of the state; a
\* simulation that was replaced moves the nodes it was given, which the
\* state no longer holds
Tick(sim) ==
    /\ inited
    /\ steps < MaxSteps
    /\ simulations[sim]
    /\ steps' = steps + 1
    /\ call' = [op |-> "tick", simulation |-> sim]
    /\ IF sim = Len(simulations)
       THEN /\ \A i \in 1..Len(d3Nodes) : heap[d3Nodes[i]].x < MaxCoord
            /\ heap' = [r \in 1..Len(heap) |->
                          IF \E i \in 1..Len(d3Nodes) : d3Nodes[i] = r
                          THEN tickNode(heap[r])
                          ELSE heap[r]]
       ELSE heap' = heap
    /\ snapshot' = EmptyObject
    /\ UNCHANGED <<inited, config, links, d3Links, nodes, d3Nodes, highlightedNode,
                   simulations, props, result>>

\* between two calls the host changes the data or the configuration
Reinitialize(input) ==
    /\ inited
    /\ input.data = props.data \/ input.config = props.config
    /\ Initialize(input)

Next ==
    \/ \E input \in Inputs : ~inited /\ Initialize(input)
    \/ \E input \in Inputs : Reinitialize(input)
    \/ \E id \in DOMAIN nodes, value \in BOOLEAN, hd \in HighlightDegrees :
          SetHighlight(id, value, hd)
    \/ \E id \in Ids : Collapse(id)
    \/ \E sim \in 1..Len(simulations) : Tick(sim)

Spec == Init /\ [][Next]_vars

(***************************************************************************)
(* The host asks whether the next props change the graph elements.  The    *)
(* question leaves the state as it is; call records it and its answer.     *)
(***************************************************************************)
Observed == call.op \in {"diff", "buildLinkProps", "buildNodeProps"}

NewId == "D"

\* the next props: the last ones, or those with a color on the first node,
\* or those with one more node
NextProps(change) ==
    IF change = "color"
    THEN [props EXCEPT !.data.nodes[1] = extends(@, [color |-> "red"])]
    ELSE IF change = "node"
    THEN [props EXCEPT !.data.nodes = Append(@, [id |-> NewId])]
    ELSE props

Changes == {"none", "color", "node"}

DiffElements(change) ==
    /\ inited
    /\ ~Observed
    /\ call' = [op |-> "diff", after |-> call.op, change |-> change,
                out |-> checkForGraphElementsChanges(NextProps(change), State)]
    /\ UNCHANGED <<stateVars, snapshot, props, result, steps>>

NextDiff ==
    \/ Next
    \/ \E change \in Changes : DiffElements(change)

SpecDiff == Init /\ [][NextDiff]_vars

\* a single call of initializeGraphState on any input, valid or not
NextValidate == steps = 0 /\ \E input \in AllInputs : Initialize(input)

SpecValidate == Init /\ [][NextValidate]_vars

(***************************************************************************)
(* Properties.                                                             *)
(***************************************************************************)
\* the last operation was an initializeGraphState that returned a state
InitReturned == call.op = "init" /\ result = "ok"

InputIds == {props.data.nodes[i].id : i \in 1..Len(props.data.nodes)}

NodeOf(id) == heap[nodes[id]]

NoNodes(data) == ~data.hasNodes \/ Len(data.nodes) = 0

BadEndpoint(data, l) == l.source \notin {data.nodes[i].id : i \in 1..Len(data.nodes)}
                        \/ l.target \notin {data.nodes[i].id : i \in 1..Len(data.nodes)}

NonNumericValue(l) == "value" \in DOMAIN l /\ l.value.typeof # "number"

Offending(data, i) == BadEndpoint(data, data.links[i]) \/ NonNumericValue(data.links[i])

\* C1 as stated: each violation always raises its own error, and a node list
\* with no links always succeeds.
C1_EachViolationItsError ==
    call.op = "init" =>
        /\ NoNodes(props.data) => result = "INSUFFICIENT_DATA"
        /\ (\E i \in 1..Len(props.data.links) : BadEndpoint(props.data, props.data.links[i]))
              => result = "INVALID_LINKS"
        /\ (\E i \in 1..Len(props.data.links) : NonNumericValue(props.data.links[i]))
              => result = "INVALID_LINK_VALUE"
        /\ (~NoNodes(props.data) /\ Len(props.data.links) = 0) => (result = "ok" /\ inited)

\* C1 amended: initializeGraphState fails whenever one of the three
\* violations is present, with INSUFFICIENT_DATA when there are no nodes and
\* otherwise with the error of the first offending link in list order
\* (INVALID_LINKS if an endpoint of that link is not a node id, else
\* INVALID_LINK_VALUE); with nodes and no offending link it returns a state.
C1_FirstViolationDecides ==
    call.op = "init" =>
        /\ NoNodes(props.data) => result = "INSUFFICIENT_DATA"
        /\ ~NoNodes(props.data) =>
              \A i \in 1..Len(props.data.links) :
                 (Offending(props.data, i) /\ \A j \in 1..(i - 1) : ~Offending(props.data, j))
                    => result = IF BadEndpoint(props.data, props.data.links[i])
                                THEN "INVALID_LINKS"
                                ELSE "INVALID_LINK_VALUE"
        /\ (~NoNodes(props.data) /\ \A i \in 1..Len(props.data.links) : ~Offending(props.data, i))
              => (result = "ok" /\ inited)

\* a call that raised the value error although a later link has a bad endpoint
C1_Witness ==
    /\ call.op = "init"
    /\ result = "INVALID_LINK_VALUE"
    /\ \E i \in 1..Len(props.data.links) : BadEndpoint(props.data, props.data.links[i])

\* C2: after a successful initializeGraphState the keys of the node map are
\* exactly the ids of the input nodes.
C2_NodeMapKeysAreInputIds ==
    InitReturned => DOMAIN nodes = InputIds

\* a re-initialization that dropped a node a simulation link still names
C2_Witness ==
    /\ InitReturned
    /\ call.hadState
    /\ Cardinality(InputIds) >= 2
    /\ \E i \in 1..Len(d3Links) : d3Links[i].source \notin InputIds

\* C3 as stated: the adjacency matrix has a row for every input node id.
C3_RowForEveryNode ==
    InitReturned => \A id \in InputIds : id \in DOMAIN links

LinkEndpoints == UNION {{d3Links[i].source, d3Links[i].target} : i \in 1..Len(d3Links)}

\* C3 amended: the rows of the adjacency matrix are exactly the ids that are
\* source or target of a simulation link of the returned state; a node that
\* no simulation link names has no row.
C3_RowsAreLinkEndpoints ==
    InitReturned => DOMAIN links = LinkEndpoints

\* a returned state with links and with a node that has no row
C3_Witness ==
    /\ InitReturned
    /\ Len(d3Links) > 0
    /\ config.directed
    /\ \E id \in InputIds : id \notin DOMAIN links

\* C4: after every (re-)initialization the endpoints of the simulation links
\* and the ids of the adjacency matrix are keys of the node map.
C4_LinksNameNodes ==
    InitReturned =>
        /\ \A i \in 1..Len(d3Links) :
              d3Links[i].source \in DOMAIN nodes /\ d3Links[i].target \in DOMAIN nodes
        /\ \A a \in DOMAIN links : a \in DOMAIN nodes /\ DOMAIN links[a] \subseteq DOMAIN nodes

\* the step is a re-initialization that returned a state
ReinitStep == inited /\ call'.op = "init" /\ result' = "ok"

SameField(a, b, f) ==
    /\ f \in DOMAIN a <=> f \in DOMAIN b
    /\ f \in DOMAIN a => a[f] = b[f]

\* C5: a re-initialization keeps x, y, vx, vy and highlighted of every node
\* whose id is in the previous node map and in the new input.
C5_ReinitKeepsNodeState ==
    [][ReinitStep =>
          \A id \in (DOMAIN nodes) \cap (DOMAIN nodes') :
             \A f \in {"x", "y", "vx", "vy", "highlighted"} :
                SameField(heap[nodes[id]], heap'[nodes'[id]], f)]_vars

\* the node has the _orphan flag
Tagged(id) == "_orphan" \in DOMAIN NodeOf(id) /\ NodeOf(id)["_orphan"]

InputLinkAt(id) ==
    \E i \in 1..Len(props.data.links) :
       id \in {props.data.links[i].source, props.data.links[i].target}

\* the simulation links join the nodes the input links join, index by index
LinksFollowInput ==
    /\ Len(d3Links) = Len(props.data.links)
    /\ \A i \in 1..Len(d3Links) :
          /\ d3Links[i].source = props.data.links[i].source
          /\ d3Links[i].target = props.data.links[i].target

\* C6 as stated, for the returned states whose simulation links are the
\* input links: a node is tagged _orphan iff no input link is incident to it.
C6_OrphanIffNoInputLink ==
    (InitReturned /\ LinksFollowInput) =>
        \A id \in DOMAIN nodes : Tagged(id) <=> ~InputLinkAt(id)

\* C6 amended: a node of the returned state is tagged _orphan iff the
\* returned adjacency matrix has no nonzero entry for it, neither in its own
\* row nor in another row; a node whose incident links are all hidden while
\* collapsing is enabled is tagged, and the tag is computed afresh by every
\* initialization.
C6_OrphanIffNoWeight ==
    InitReturned =>
        \A id \in DOMAIN nodes :
           Tagged(id) <=>
              \A a \in DOMAIN links : \A b \in DOMAIN links[a] :
                 links[a][b] # 0 => id \notin {a, b}

\* a tagged node with an incident input link, hidden under collapsible
C6_Witness ==
    /\ InitReturned
    /\ LinksFollowInput
    /\ config.collapsible
    /\ \E id \in DOMAIN nodes : Tagged(id) /\ InputLinkAt(id)
    /\ \E id \in DOMAIN nodes : ~Tagged(id)

\* C7: the adjacency matrix built for an undirected graph is symmetric.
C7_UndirectedSymmetric ==
    (InitReturned /\ ~config.directed) =>
        \A a \in DOMAIN links : \A b \in DOMAIN links[a] :
           /\ b \in DOMAIN links
           /\ a \in DOMAIN links[b]
           /\ links[a][b] = links[b][a]

Hidden(l) == "isHidden" \in DOMAIN l /\ l.isHidden

\* an undirected state with two links on one pair, one hidden and one not
C7_Witness ==
    /\ InitReturned
    /\ ~config.directed
    /\ config.collapsible
    /\ \E i, j \in 1..Len(d3Links) :
          /\ d3Links[i].source = d3Links[j].source
          /\ d3Links[i].target = d3Links[j].target
          /\ Hidden(d3Links[i])
          /\ ~Hidden(d3Links[j])
          /\ links[d3Links[i].source][d3Links[i].target] # 0

Comparable(h, nodeMap) ==
    [id \in DOMAIN nodeMap |-> antiPick(h[nodeMap[id]], NODE_PROPERTIES_DISCARD_TO_COMPARE)]

\* C8: initializing again with the input and the state just returned gives
\* the same node map, x, y, vx, vy and index set aside.
C8_ReinitIdempotent ==
    InitReturned =>
        Comparable(initializeGraphState(props, State).heap,
                   initializeGraphState(props, State).nodes)
          = Comparable(heap, nodes)

\* a state returned by a re-initialization that kept a hidden link and
\* tagged an orphan
C8_Witness ==
    /\ InitReturned
    /\ call.hadState
    /\ config.collapsible
    /\ \E i \in 1..Len(d3Links) : Hidden(d3Links[i])
    /\ \E id \in DOMAIN nodes : Tagged(id)
    /\ \E id \in DOMAIN nodes : ~Tagged(id)

\* the step is a call of updateNodeHighlightedValue
HighlightStep == inited /\ call'.op = "highlight"

\* the step activates the highlight on a node map without highlighted node
ActivateStep ==
    /\ HighlightStep
    /\ call'.value
    /\ \A id \in DOMAIN nodes : ~heap[nodes[id]].highlighted

HighlightedAfter == {id \in DOMAIN nodes' : heap'[nodes'[id]].highlighted}

\* the nodes a simulation link joins to the node, in either direction
LinkNeighbours(x) ==
    {d3Links[i].target : i \in {j \in 1..Len(d3Links) : d3Links[j].source = x}}
    \cup {d3Links[i].source : i \in {j \in 1..Len(d3Links) : d3Links[j].target = x}}

\* the ids of the row of the node in the adjacency matrix
Row(x) == IF x \in DOMAIN links THEN DOMAIN links[x] ELSE {}

\* C9 as stated: with degree 1 the highlighted nodes are X and the nodes a
\* link joins to X in either direction; with degree 0 only X.
C9_HighlightsLinkNeighbours ==
    [][ActivateStep =>
          /\ call'.highlightDegree = 1 =>
                HighlightedAfter = {call'.id} \cup LinkNeighbours(call'.id)
          /\ call'.highlightDegree = 0 => HighlightedAfter = {call'.id}]_vars

\* C9 amended: with degree 1 the highlighted nodes are X and the nodes the
\* adjacency matrix lists in the row of X (for a directed graph the targets
\* of the links that leave X, not the sources of the links that reach it),
\* and no other node; with degree 0 only X.
C9_HighlightsRow ==
    [][ActivateStep =>
          /\ call'.highlightDegree = 1 =>
                HighlightedAfter = {call'.id} \cup Row(call'.id)
          /\ call'.highlightDegree = 0 => HighlightedAfter = {call'.id}]_vars

\* the first operation after an initialization activates, with degree 1, a
\* node of a directed graph that a link reaches from a node left alone
C9_Witness ==
    /\ steps = 2
    /\ call.op = "highlight"
    /\ call.value
    /\ call.highlightDegree = 1
    /\ config.directed
    /\ \E i \in 1..Len(d3Links) :
          /\ d3Links[i].target = call.id
          /\ ~NodeOf(d3Links[i].source).highlighted
    /\ \E id \in DOMAIN nodes : id # call.id /\ NodeOf(id).highlighted

\* C10: updateNodeHighlightedValue leaves the node map it is given, the node
\* objects of that map and the adjacency matrix as they were, and every node
\* whose flag changes is a new object in the returned map.
C10_HighlightCopiesOnWrite ==
    [][HighlightStep =>
          /\ snapshot' = nodes
          /\ \A id \in DOMAIN nodes :
                nodes[id] \in DOMAIN heap' /\ heap'[nodes[id]] = heap[nodes[id]]
          /\ links' = links
          /\ \A id \in DOMAIN nodes' :
                (id \notin DOMAIN nodes
                   \/ heap'[nodes'[id]].highlighted # heap[nodes[id]].highlighted)
                => nodes'[id] \notin DOMAIN heap]_vars

\* a call that changed the flag of the node and of a neighbour
C10_Witness ==
    /\ call.op = "highlight"
    /\ call.value
    /\ Cardinality({id \in DOMAIN nodes : NodeOf(id).highlighted}) >= 2
    /\ \E id \in DOMAIN snapshot : ~heap[snapshot[id]].highlighted /\ NodeOf(id).highlighted

(***************************************************************************)
(* Rendering: the host builds the props of the links and of the nodes of   *)
(* the state, with the render configuration and the highlighted link of    *)
(* the moment.  The inputs carry a color on node A and on the link A-B.    *)
(***************************************************************************)
RenderNode(id) == IF id = "A" THEN [id |-> id, color |-> "red"] ELSE [id |-> id]

RenderNodeList(S) == [i \in 1..Cardinality(S) |-> RenderNode(OrderedIds(S)[i])]

RenderLinks ==
    {[source |-> "A", target |-> "B", color |-> "red"], [source |-> "B", target |-> "C"]}

RenderInputs ==
    UNION {{[data |-> Data(RenderNodeList(S), ls),
             config |-> [directed |-> dir, collapsible |-> FALSE]] :
                ls \in {s \in SeqsUpTo(RenderLinks, MaxLinks) :
                           /\ \A i \in 1..Len(s) :
                                 validateLink(Data(RenderNodeList(S), s), s[i]) = "ok"
                           /\ \A i, j \in 1..Len(s) : s[i] = s[j] => i = j},
                dir \in BOOLEAN} :
           S \in {{"A", "B"}, {"B", "C"}, {"A", "B", "C"}}}

RenderConfig(highlightDegree, semanticStrokeWidth, sentinel) ==
    [highlightDegree |-> highlightDegree,
     highlightOpacity |-> 20,
     link |-> [color |-> "gray",
               highlightColor |-> IF sentinel THEN SAME ELSE "blue",
               opacity |-> 100,
               strokeWidth |-> 2,
               semanticStrokeWidth |-> semanticStrokeWidth],
     node |-> [color |-> "white",
               highlightColor |-> IF sentinel THEN SAME ELSE "blue",
               strokeColor |-> "none",
               highlightStrokeColor |-> IF sentinel THEN SAME ELSE "blue",
               strokeWidth |-> 2,
               highlightStrokeWidth |-> IF sentinel THEN Str(SAME) ELSE Num(4),
               opacity |-> 100]]

RenderConfigs ==
    {RenderConfig(hd, sem, sentinel) :
        hd \in HighlightDegrees, sem \in BOOLEAN, sentinel \in BOOLEAN}

NodeRenderConfigs ==
    {RenderConfig(hd, FALSE, sentinel) : hd \in HighlightDegrees, sentinel \in BOOLEAN}

\* no highlighted link, or the link A-B
HighlightedLinks == {EmptyObject, [source |-> "A", target |-> "B"]}

BuildLinkProps(i, rconfig, highlightedLink) ==
    /\ inited
    /\ ~Observed
    /\ call' = [op |-> "buildLinkProps", after |-> call, link |-> d3Links[i],
                config |-> rconfig, highlightedLink |-> highlightedLink,
                out |-> buildLinkProps(d3Links[i], State, rconfig, highlightedLink)]
    /\ UNCHANGED <<stateVars, snapshot, props, result, steps>>

BuildNodeProps(id, rconfig, highlightedLink) ==
    /\ inited
    /\ ~Observed
    /\ "id" \in DOMAIN heap[nodes[id]]
    /\ call' = [op |-> "buildNodeProps", after |-> call, node |-> heap[nodes[id]],
                config |-> rconfig, highlightedLink |-> highlightedLink,
                out |-> buildNodeProps(heap[nodes[id]], rconfig, highlightedNode,
                                       highlightedLink)]
    /\ UNCHANGED <<stateVars, snapshot, props, result, steps>>

NextRender ==
    \/ \E input \in RenderInputs : ~inited /\ Initialize(input)
    \/ \E input \in RenderInputs : Reinitialize(input)
    \/ \E id \in DOMAIN nodes, value \in BOOLEAN, hd \in HighlightDegrees :
          SetHighlight(id, value, hd)
    \/ \E sim \in 1..Len(simulations) : Tick(sim)
    \/ \E i \in 1..Len(d3Links), rconfig \in RenderConfigs,
          highlightedLink \in HighlightedLinks :
          BuildLinkProps(i, rconfig, highlightedLink)
    \/ \E id \in DOMAIN nodes, rconfig \in NodeRenderConfigs,
          highlightedLink \in HighlightedLinks :
          BuildNodeProps(id, rconfig, highlightedLink)

SpecRender == Init /\ [][NextRender]_vars

(***************************************************************************)
(* The utils on their own: one call of isDeepEqual or of merge on two      *)
(* objects.  The objects have the keys a and b, nested to depth two, with  *)
(* numbers and arrays of numbers at the leaves.                            *)
(***************************************************************************)
UtilKeys == {"a", "b"}

Scalars == {Scalar(1), Scalar(2)}

Arrays == {ArrayOf(seq) : seq \in SeqsUpTo({Scalar(1), Scalar(2)}, MaxLinks)}

ObjectsOver(values) == {Obj(f) : f \in UNION {[S -> values] : S \in SUBSET UtilKeys}}

FlatObjects == ObjectsOver(Scalars)

UtilObjects == ObjectsOver(Scalars \cup Arrays \cup FlatObjects)

\* two of the objects; same: o1 and o2 are one and the same object
UtilInputs(objects) ==
    {[o1 |-> o1, o2 |-> o2, same |-> FALSE] : o1, o2 \in objects}
    \cup {[o1 |-> o, o2 |-> o, same |-> TRUE] : o \in objects}

InitUtils ==
    /\ inited = FALSE
    /\ config = DefaultConfig
    /\ links = EmptyObject
    /\ d3Links = <<>>
    /\ nodes = EmptyObject
    /\ d3Nodes = <<>>
    /\ highlightedNode = ""
    /\ simulations = <<>>
    /\ heap = <<>>
    /\ snapshot = EmptyObject
    /\ props \in UtilInputs(UtilObjects)
    /\ call = [op |-> "none"]
    /\ result = "none"
    /\ steps = 0

\* isDeepEqual(o1, o2), and isDeepEqual(o2, o1) beside it
IsDeepEqual ==
    /\ call.op = "none"
    /\ call' = [op |-> "isDeepEqual",
                out |-> props.same \/ isDeepEqual(props.o1, props.o2, 0),
                back |-> props.same \/ isDeepEqual(props.o2, props.o1, 0)]
    /\ UNCHANGED <<stateVars, snapshot, props, result, steps>>

Merge ==
    /\ call.op = "none"
    /\ call' = [op |-> "merge", out |-> merge(props.o1, props.o2, 0)]
    /\ UNCHANGED <<stateVars, snapshot, props, result, steps>>

NextUtils == IsDeepEqual \/ Merge

SpecUtils == InitUtils /\ [][NextUtils]_vars

\* the last operation is a diff asked right after an initializeGraphState
\* that returned a state
DiffAfterInit == call.op = "diff" /\ call.after = "init" /\ result = "ok"

\* C11: on the state an initialization returned, the diff answers
\* graphElementsUpdated = newGraphElements = FALSE for the same input, TRUE and
\* FALSE when only the color of a node changes, TRUE and TRUE when a node is
\* added.
C11_DiffDetectsChanges ==
    DiffAfterInit =>
        /\ call.change = "none" =>
              call.out = [graphElementsUpdated |-> FALSE, newGraphElements |-> FALSE]
        /\ call.change = "color" =>
              call.out = [graphElementsUpdated |-> TRUE, newGraphElements |-> FALSE]
        /\ call.change = "node" =>
              call.out = [graphElementsUpdated |-> TRUE, newGraphElements |-> TRUE]

LinkBuilt == call.op = "buildLinkProps"

NodeBuilt == call.op = "buildNodeProps"

\* the matrix has no weight for the link, in either direction
NoWeight(l) ==
    /\ l.source \notin DOMAIN links \/ entry(links, l.source, l.target) = 0
    /\ l.target \notin DOMAIN links \/ entry(links, l.target, l.source) = 0

\* C12: buildLinkProps returns a prop record for every link, highlight
\* degree and semanticStrokeWidth, with coordinate 0 for an endpoint that is
\* not in the node map and weight 1 for a link without adjacency entry.
C12_BuildLinkPropsNeverRaises ==
    LinkBuilt =>
        /\ ~call.out.raised
        /\ call.link.source \notin DOMAIN nodes => call.out.d.source = [x |-> 0, y |-> 0]
        /\ call.link.target \notin DOMAIN nodes => call.out.d.target = [x |-> 0, y |-> 0]
        /\ (call.config.link.semanticStrokeWidth /\ NoWeight(call.link)) =>
              call.out.strokeWidth
                 = 10 * call.config.link.strokeWidth + 1 * call.config.link.strokeWidth

\* the value of a visual property when the element is not highlighted
Normal(element, group, field) ==
    IF field \in DOMAIN element THEN element[field] ELSE call.config[group][field]

\* C13: with the sentinel in the highlight overrides, the fill, the stroke
\* and the stroke width of a node and the stroke of a link are those of the
\* element when it is not highlighted, own color of the link included.
C13_SameKeepsVisuals ==
    /\ (NodeBuilt /\ call.config.node.highlightColor = SAME) =>
          /\ call.out.fill = Normal(call.node, "node", "color")
          /\ call.out.stroke = Normal(call.node, "node", "strokeColor")
          /\ call.out.strokeWidth = 10 * Normal(call.node, "node", "strokeWidth")
    /\ (LinkBuilt /\ call.config.link.highlightColor = SAME /\ ~call.out.raised) =>
          call.out.stroke = Normal(call.link, "link", "color")

\* the link props were built right after a call that activated a node, with
\* the highlight degree of that call
BuiltAfterActivate ==
    /\ LinkBuilt
    /\ call.after.op = "highlight"
    /\ call.after.value
    /\ call.after.highlightDegree = call.config.highlightDegree

\* the node that call activated, or one its row lists when the highlight
\* spreads
InHighlightSet(id) ==
    \/ id = call.after.id
    \/ call.config.highlightDegree # 0 /\ id \in Row(call.after.id)

NoOtherHighlight ==
    \A id \in DOMAIN nodes : NodeOf(id).highlighted => InHighlightSet(id)

Designated ==
    /\ isLinkEnd(call.highlightedLink, "source", call.link.source)
    /\ isLinkEnd(call.highlightedLink, "target", call.link.target)

Touches == call.after.id \in {call.link.source, call.link.target}

\* C14 as stated, for the links whose endpoints are in the node map: after
\* the activation of X, with degree 0 no link is highlighted, with degree 1
\* exactly the links with X as an endpoint, with degree 2 every link at X;
\* the designated link is highlighted in all cases.
C14_LinksAtXHighlighted ==
    (/\ BuiltAfterActivate
     /\ NoOtherHighlight
     /\ {call.link.source, call.link.target} \subseteq DOMAIN nodes) =>
        /\ ~call.out.raised
        /\ Designated => call.out.highlight
        /\ call.highlightedLink = EmptyObject =>
              /\ call.config.highlightDegree = 0 => ~call.out.highlight
              /\ call.config.highlightDegree = 1 => (call.out.highlight <=> Touches)
              /\ call.config.highlightDegree = 2 => (Touches => call.out.highlight)

\* C14 amended: after the activation of X on a graph with no other
\* highlight, buildLinkProps, when it returns, treats a link as highlighted
\* iff it is the designated link, or the degree is 1, X is an endpoint and
\* both endpoints are X or in the row of X, or the degree is 2 and both
\* endpoints are X or in the row of X; in a directed graph a link that
\* reaches X is not highlighted.  It raises only for a link with an endpoint
\* that is not in the node map.
C14_HighlightedIffEndpointsInRow ==
    (BuiltAfterActivate /\ NoOtherHighlight) =>
        IF call.out.raised
        THEN ~({call.link.source, call.link.target} \subseteq DOMAIN nodes)
        ELSE call.out.highlight <=>
                \/ Designated
                \/ /\ call.config.highlightDegree # 0
                   /\ call.config.highlightDegree = 1 => Touches
                   /\ InHighlightSet(call.link.source)
                   /\ InHighlightSet(call.link.target)

\* in a directed graph, with degree 1, the link that reaches the activated
\* node is built and is not highlighted, the link that leaves it exists
C14_Witness ==
    /\ BuiltAfterActivate
    /\ NoOtherHighlight
    /\ config.directed
    /\ call.config.highlightDegree = 1
    /\ call.highlightedLink = EmptyObject
    /\ call.link.target = call.after.id
    /\ call.link.source \in DOMAIN nodes
    /\ ~call.out.raised
    /\ ~call.out.highlight
    /\ \E i \in 1..Len(d3Links) : d3Links[i].source = call.after.id

Running == {i \in 1..Len(simulations) : simulations[i]}

\* C15: at most one force simulation runs at any time, and no tick comes
\* from a simulation that was replaced.
C15_OneSimulationRunning ==
    /\ Cardinality(Running) <= 1
    /\ call.op = "tick" => call.simulation = Len(simulations)

\* the value is what the claim says merge returns for the base value b and
\* the override value o of a key the override has
RECURSIVE MergedAsClaimed(_, _, _)
MergedAsClaimed(r, b, o) ==
    IF o.t \in {"scalar", "array"} THEN r.t = o.t /\ r = o
    ELSE IF b.t = "object" /\ keys(b) # {}
    THEN /\ r.t = "object"
         /\ \A k \in keys(b) :
               /\ k \in keys(r)
               /\ IF k \in keys(o)
                  THEN MergedAsClaimed(r.v[k], b.v[k], o.v[k])
                  ELSE r.v[k].t = b.v[k].t /\ r.v[k] = b.v[k]
    ELSE TRUE

\* C16: for every key of a non-empty base, merge returns the value of the
\* override when it is a scalar or an array, the recursive merge when both
\* values are plain objects, and the value of the base when the override
\* lacks the key.
C16_MergeOverrides ==
    (call.op = "merge" /\ keys(props.o1) # {}) =>
        MergedAsClaimed(call.out, props.o1, props.o2)

\* the two objects are plain: no array in them
RECURSIVE Plain(_)
Plain(o) ==
    \/ o.t = "scalar"
    \/ o.t = "object" /\ \A k \in keys(o) : Plain(o.v[k])

\* C17: on plain nested objects with scalar leaves isDeepEqual is structural
\* equality (same keys and, key by key, equal scalars or equal nested
\* objects), and it is symmetric.
C17_DeepEqualIsStructural ==
    (call.op = "isDeepEqual" /\ Plain(props.o1) /\ Plain(props.o2)) =>
        /\ call.out <=> props.o1 = props.o2
        /\ call.out = call.back

\* two objects with as many keys and different keys, and two different
\* objects apart in a nested value only
C17_Witness ==
    /\ call.op = "isDeepEqual"
    /\ Plain(props.o1) /\ Plain(props.o2)
    /\ ~call.out
    /\ \/ /\ keys(props.o1) # keys(props.o2)
          /\ Cardinality(keys(props.o1)) = Cardinality(keys(props.o2))
       \/ /\ keys(props.o1) = keys(props.o2)
          /\ \E k \in keys(props.o1) :
                /\ isPropertyNestedObject(props.o1, k)
                /\ isPropertyNestedObject(props.o2, k)
                /\ keys(props.o1.v[k]) = keys(props.o2.v[k])
                /\ props.o1.v[k] # props.o2.v[k]

\* the indices of the simulation links a re-initialization matches
Matched == {i \in 1..Len(d3Links) : i <= Len(d3Links')}

\* C18: a re-initialization shows every matched simulation link again when
\* the directed setting changes, in either direction, and when collapsible
\* is off; it keeps isHidden when collapsible is on and directed unchanged.
C18_ToggleShowsLinks ==
    [][ReinitStep =>
          \A i \in Matched :
             /\ (config'.directed # config.directed \/ ~config'.collapsible)
                   => ~Hidden(d3Links'[i])
             /\ (config'.collapsible /\ config'.directed = config.directed)
                   => (Hidden(d3Links'[i]) <=> Hidden(d3Links[i]))]_vars

HighlightedIn(nodeMap, h) == {id \in DOMAIN nodeMap : h[nodeMap[id]].highlighted}

\* the highlighted nodes are those of the highlighted node: none when there
\* is none, else that node and the nodes of its row
FollowsHighlightedNode(nodeMap, h, hNode) ==
    HighlightedIn(nodeMap, h) = IF hNode = "" THEN {} ELSE {hNode} \cup Row(hNode)

\* C19 as stated, call by call with highlight degree 1: when the highlighted
\* nodes are those of the highlighted node before a call, they are those of
\* the returned highlighted node after it.
C19_HighlightFollowsLastCall ==
    [][(/\ HighlightStep
        /\ call'.highlightDegree = 1
        /\ FollowsHighlightedNode(nodes, heap, highlightedNode))
          => FollowsHighlightedNode(nodes', heap', highlightedNode')]_vars

\* the nodes a call writes: the node, and its row when the highlight spreads
Written ==
    {call'.id} \cup (IF call'.highlightDegree # 0 THEN Row(call'.id) ELSE {})

\* C19 amended: a call sets the flag of the node and, when the degree is not
\* 0, of the nodes of its row to the value of the call, leaves the flag of
\* every other node as it was, and returns the node as highlighted node when
\* the value is true and the empty string otherwise; a flag set by an
\* earlier call on a node outside the nodes written stays.
C19_CallWritesNodeAndRowOnly ==
    [][HighlightStep =>
          /\ highlightedNode' = IF call'.value THEN call'.id ELSE ""
          /\ DOMAIN nodes' = DOMAIN nodes \cup Written
          /\ \A id \in Written : heap'[nodes'[id]].highlighted = call'.value
          /\ \A id \in DOMAIN nodes' \ Written :
                heap'[nodes'[id]].highlighted = heap[nodes[id]].highlighted]_vars

\* a call with degree 1 activated a node, and a node outside its row, that
\* an earlier call highlighted, is still highlighted
C19_Witness ==
    /\ call.op = "highlight"
    /\ call.value
    /\ call.highlightDegree = 1
    /\ highlightedNode = call.id
    /\ \E id \in DOMAIN nodes :
          /\ NodeOf(id).highlighted
          /\ id \notin {call.id} \cup Row(call.id)

\* C20: in the state an initialization returns, the entry of the node map
\* and the entry of the simulation node list are, for every node id, the
\* same object, orphan or not.
C20_NodeMapSharesSimulationNodes ==
    InitReturned =>
        \A i \in 1..Len(d3Nodes) : nodes[heap[d3Nodes[i]].id] = d3Nodes[i]

====
